---- MODULE Spec2Model ----
(***************************************************************************)
(* A model of mini-yaml (src/yaml/Yaml.cpp): the node tree with its        *)
(* reference semantics (a heap of Node objects, the process-wide           *)
(* g_NoneNode), the line-oriented block parser and the block emitter.      *)
(*                                                                         *)
(* Strings are sequences of one-character strings, so that find_first_of,  *)
(* substr and friends are computed position by position as the code does.  *)
(***************************************************************************)
EXTENDS Integers, Sequences, FiniteSets, TLC

(***************************************************************************)
(* Bounds of the model.                                                    *)
(***************************************************************************)
\* Node objects allocated with new Node, over all the calls of a run.
MaxNodes == 3
\* Largest index handed to insert-at, erase-at and child-at.
MaxIndex == 1
\* Keys of m_Sequence beyond which the allocator gives up (std::bad_alloc).
MaxSeqKey == 6
\* Depth of CopyNode's recursion beyond which the stack is exhausted.
MaxCopyDepth == 6

(***************************************************************************)
(* Characters and strings.                                                 *)
(***************************************************************************)
\* The character set of the model with its ASCII codes.
Code(c) ==
    CASE c = "\t" -> 9   [] c = "\n" -> 10  [] c = "\r" -> 13
      [] c = " "  -> 32  [] c = "\"" -> 34  [] c = "#"  -> 35
      [] c = "'"  -> 39  [] c = "-"  -> 45  [] c = "."  -> 46
      [] c = ":"  -> 58  [] c = ">"  -> 62  [] c = "\\" -> 92
      [] c = "a"  -> 97  [] c = "b"  -> 98  [] c = "k"  -> 107
      [] c = "v"  -> 118 [] c = "x"  -> 120 [] c = "y"  -> 121
      [] c = "|"  -> 124 [] c = "~"  -> 126

\* std::string's operator< : lexicographic on the character codes.
RECURSIVE StrLess(_, _)
StrLess(s, t) ==
    IF t = <<>> THEN FALSE
    ELSE IF s = <<>> THEN TRUE
    ELSE IF Code(Head(s)) # Code(Head(t)) THEN Code(Head(s)) < Code(Head(t))
    ELSE StrLess(Tail(s), Tail(t))

g_EmptyString == <<>>

Min(S) == CHOOSE x \in S : \A y \in S : x <= y
Max(S) == CHOOSE x \in S : \A y \in S : y <= x

(***************************************************************************)
(* std::map as a function with a finite domain.                            *)
(***************************************************************************)
EmptyMap == <<>>

\* std::map::insert: does nothing when the key is already there.
MapInsert(f, k, v) ==
    IF k \in DOMAIN f THEN f
    ELSE [x \in DOMAIN f \cup {k} |-> IF x = k THEN v ELSE f[x]]

\* std::map::operator[] followed by an assignment.
MapPut(f, k, v) == [x \in DOMAIN f \cup {k} |-> IF x = k THEN v ELSE f[x]]

\* std::map::erase(key).
MapErase(f, k) == [x \in DOMAIN f \ {k} |-> f[x]]

\* The keys of a std::map<size_t, ...> in iteration order.
RECURSIVE SortedIdx(_)
SortedIdx(D) == IF D = {} THEN <<>> ELSE <<Min(D)>> \o SortedIdx(D \ {Min(D)})

\* The keys of a std::map<std::string, ...> in iteration order.
RECURSIVE SortedKeys(_)
SortedKeys(D) ==
    IF D = {} THEN <<>>
    ELSE LET k == CHOOSE x \in D : \A y \in D \ {x} : StrLess(x, y)
         IN <<k>> \o SortedKeys(D \ {k})

(***************************************************************************)
(* The node tree.  Node objects live in a heap and are named by their      *)
(* address; a reference the caller holds is such an address.  A machine    *)
(* state m is the record [heap, live, status]: the Node objects, the       *)
(* addresses not yet deleted, and whether the call in progress is still    *)
(* running normally.                                                       *)
(***************************************************************************)
VARIABLES heap, live, status, phase, inputText, usedConfig, outputText, original, error,
          m_Lines, held, scan

\* static Yaml::Node g_NoneNode: the one process-wide sentinel.
g_NoneNode == 0
\* The Node object the caller constructs for itself: the root of its tree.
Roots == {1}

\* NodeImp(): m_Type(None), m_pImp(nullptr).
NodeImp == [type |-> "None", data |-> g_EmptyString, seq |-> EmptyMap, map |-> EmptyMap]

\* The address operator new returns: one never used before, so that a
\* pointer to a deleted object is never taken for a pointer to a later one.
FreshAddress(m) == Max(DOMAIN m.heap) + 1

\* new Node: a fresh Node object at a fresh address.
NewNode(m) ==
    LET a == FreshAddress(m)
    IN [m EXCEPT !.heap = [x \in DOMAIN m.heap \cup {a} |->
                               IF x = a THEN NodeImp ELSE m.heap[x]],
                 !.live = @ \cup {a}]

Node_Type(h, n) == h[n].type

Node_Size(h, n) ==
    CASE h[n].type = "Sequence" -> Cardinality(DOMAIN h[n].seq)
      [] h[n].type = "Map"      -> Cardinality(DOMAIN h[n].map)
      [] OTHER                  -> 0

Node_AsString(h, n) == IF h[n].type = "Scalar" THEN h[n].data ELSE g_EmptyString

\* The values of a std::map in the order of the keys ks.
ValuesAt(f, ks) == [i \in 1..Len(ks) |-> f[ks[i]]]

\* The children a TypeImp's destructor deletes, in the order of its loop.
ImpChildren(h, n) ==
    CASE h[n].type = "Sequence" -> ValuesAt(h[n].seq, SortedIdx(DOMAIN h[n].seq))
      [] h[n].type = "Map"      -> ValuesAt(h[n].map, SortedKeys(DOMAIN h[n].map))
      [] OTHER                  -> <<>>

\* The end of delete pNode: the object at n is gone.
Freed(m, n) ==
    IF m.status # "ok" THEN m
    ELSE [m EXCEPT !.live = @ \ {n}, !.heap[n] = NodeImp]

\* delete pNode: ~Node deletes the NodeImp, whose destructor clears it, which
\* deletes the TypeImp, whose destructor deletes every child.  Deleting an
\* address that is already deleted is undefined behaviour.
RECURSIVE DeleteNode(_, _), DeleteAll(_, _)
DeleteNode(m, n) ==
    IF m.status # "ok" THEN m
    ELSE IF n \notin m.live THEN [m EXCEPT !.status = "ub"]
    ELSE Freed(DeleteAll(m, ImpChildren(m.heap, n)), n)

DeleteAll(m, list) ==
    IF list = <<>> THEN m
    ELSE DeleteAll(DeleteNode(m, Head(list)), Tail(list))

\* The end of NodeImp::Clear and of the Init functions: m_pImp and m_Type set.
SetImp(m, n, type) ==
    IF m.status # "ok" THEN m
    ELSE [m EXCEPT !.heap[n] = [NodeImp EXCEPT !.type = type]]

\* NodeImp::Clear.
NodeImp_Clear(m, n) ==
    IF m.status # "ok" THEN m
    ELSE SetImp(DeleteAll(m, ImpChildren(m.heap, n)), n, "None")

InitSequence(m, n) ==
    IF m.status # "ok" THEN m
    ELSE IF m.heap[n].type # "Sequence"
    THEN SetImp(DeleteAll(m, ImpChildren(m.heap, n)), n, "Sequence")
    ELSE m

InitMap(m, n) ==
    IF m.status # "ok" THEN m
    ELSE IF m.heap[n].type # "Map"
    THEN SetImp(DeleteAll(m, ImpChildren(m.heap, n)), n, "Map")
    ELSE m

InitScalar(m, n) ==
    IF m.status # "ok" THEN m
    ELSE IF m.heap[n].type # "Scalar"
    THEN SetImp(DeleteAll(m, ImpChildren(m.heap, n)), n, "Scalar")
    ELSE m

\* What a call hands back: the machine state and the reference returned.
Result(m, r) == [m |-> m, ret |-> r]

\* m_Sequence of node n becomes s.
WithSeq(m, n, s) == [m EXCEPT !.heap[n].seq = s]

\* m_Map of node n becomes mp.
WithMap(m, n, mp) == [m EXCEPT !.heap[n].map = mp]

\* SequenceImp::GetNode: the child or nullptr, here as a set.
SequenceImp_GetNode(h, n, index) ==
    IF index \in DOMAIN h[n].seq THEN {h[n].seq[index]} ELSE {}

\* SequenceImp::Insert.  The while loop never advances its iterator: it ends
\* only when the first key is the index asked for, and otherwise repeats the
\* same assignment for ever.
SequenceImp_Insert(m, n, index) ==
    IF m.status # "ok" THEN Result(m, n)
    ELSE IF Cardinality(DOMAIN m.heap[n].seq) = 0
    THEN Result(WithSeq(NewNode(m), n, MapInsert(m.heap[n].seq, 0, FreshAddress(m))),
                FreshAddress(m))
    ELSE IF index >= Cardinality(DOMAIN m.heap[n].seq)
    THEN Result(WithSeq(NewNode(m), n,
                        MapInsert(m.heap[n].seq, Max(DOMAIN m.heap[n].seq), FreshAddress(m))),
                FreshAddress(m))
    ELSE IF Min(DOMAIN m.heap[n].seq) # index
    THEN Result([m EXCEPT !.status = "hang"], n)
    ELSE Result(WithSeq(NewNode(m), n,
                        MapInsert(MapPut(m.heap[n].seq, index + 1, m.heap[n].seq[index]),
                                  index, FreshAddress(m))),
                FreshAddress(m))

\* The loop of SequenceImp::PushFront with its iterator at key k: the
\* assignment creates key k + 1 when it is not there, and that is where it++
\* goes next, so the loop reaches cend() only by wrapping size_t round, which
\* no memory holds the keys for.  The result is the sequence after the loop,
\* or none when the memory for one more key is not there.
RECURSIVE PushFrontLoop(_, _)
PushFrontLoop(s, k) ==
    IF k + 1 > MaxSeqKey THEN {}
    ELSE PushFrontLoop(MapPut(s, k + 1, s[k]), Min({j \in DOMAIN s \cup {k + 1} : j > k}))

\* The end of SequenceImp::PushFront, after its loop.
PushFrontInsert(m, n, loop) ==
    IF loop = {} THEN Result([m EXCEPT !.status = "exhausted"], n)
    ELSE Result(WithSeq(NewNode(m), n, MapInsert(CHOOSE s \in loop : TRUE, 0, FreshAddress(m))),
                FreshAddress(m))

SequenceImp_PushFront(m, n) ==
    IF m.status # "ok" THEN Result(m, n)
    ELSE IF DOMAIN m.heap[n].seq = {} THEN PushFrontInsert(m, n, {m.heap[n].seq})
    ELSE PushFrontInsert(m, n, PushFrontLoop(m.heap[n].seq, Min(DOMAIN m.heap[n].seq)))

SequenceImp_PushBack(m, n) ==
    IF m.status # "ok" THEN Result(m, n)
    ELSE IF Cardinality(DOMAIN m.heap[n].seq) # 0
    THEN Result(WithSeq(NewNode(m), n,
                        MapInsert(m.heap[n].seq, Max(DOMAIN m.heap[n].seq) + 1, FreshAddress(m))),
                FreshAddress(m))
    ELSE Result(WithSeq(NewNode(m), n, MapInsert(m.heap[n].seq, 0, FreshAddress(m))),
                FreshAddress(m))

\* The end of the Erase functions: the key leaves the container.
EraseEntry(m, n, index, key) ==
    IF m.status # "ok" THEN m
    ELSE [m EXCEPT !.heap[n].seq = MapErase(@, index), !.heap[n].map = MapErase(@, key)]

SequenceImp_Erase(m, n, index) ==
    IF index \notin DOMAIN m.heap[n].seq THEN m
    ELSE EraseEntry(DeleteNode(m, m.heap[n].seq[index]), n, index, g_EmptyString)

\* A lookup that creates a child whether or not the key is there.
GetNodeAlwaysCreates(m, n, key) ==
    IF m.status # "ok" THEN Result(m, n)
    ELSE Result(WithMap(NewNode(m), n, MapPut(m.heap[n].map, key, FreshAddress(m))),
                FreshAddress(m))

\* MapImp::GetNode: lookup or create.
MapImp_GetNode(m, n, key) ==
    IF m.status # "ok" THEN Result(m, n)
    ELSE IF key \notin DOMAIN m.heap[n].map
    THEN Result(WithMap(NewNode(m), n, MapInsert(m.heap[n].map, key, FreshAddress(m))),
                FreshAddress(m))
    ELSE Result(m, m.heap[n].map[key])

MapImp_Erase(m, n, key) ==
    IF key \notin DOMAIN m.heap[n].map THEN m
    ELSE EraseEntry(DeleteNode(m, m.heap[n].map[key]), n, 0, key)

\* The methods of Node.
Node_Clear(m, n) == NodeImp_Clear(m, n)

Node_Insert(m, n, index) == SequenceImp_Insert(InitSequence(m, n), n, index)

Node_PushFront(m, n) == SequenceImp_PushFront(InitSequence(m, n), n)

Node_PushBack(m, n) == SequenceImp_PushBack(InitSequence(m, n), n)

\* The end of Node::operator[](const size_t): a miss clears g_NoneNode and
\* returns it.
GetOrNone(m, pNode) ==
    IF m.status # "ok" THEN Result(m, g_NoneNode)
    ELSE IF pNode = {} THEN Result(Node_Clear(m, g_NoneNode), g_NoneNode)
    ELSE Result(m, CHOOSE p \in pNode : TRUE)

\* Node::operator[](const size_t), once InitSequence has run.
IndexSequence(m, n, index) ==
    IF m.status # "ok" THEN Result(m, n)
    ELSE GetOrNone(m, SequenceImp_GetNode(m.heap, n, index))

Node_ChildAt(m, n, index) == IndexSequence(InitSequence(m, n), n, index)

\* Node::operator[](const std::string &).
Node_ChildAtKey(m, n, key) == MapImp_GetNode(InitMap(m, n), n, key)

Node_EraseAt(m, n, index) ==
    IF m.heap[n].type # "Sequence" THEN m ELSE SequenceImp_Erase(m, n, index)

Node_EraseKey(m, n, key) ==
    IF m.heap[n].type # "Map" THEN m ELSE MapImp_Erase(m, n, key)

\* ScalarImp::SetData.
ScalarImp_SetData(m, n, value) ==
    IF m.status # "ok" THEN m ELSE [m EXCEPT !.heap[n].data = value]

\* Node::operator = (const std::string &).
Node_AssignString(m, n, value) == ScalarImp_SetData(InitScalar(m, n), n, value)

\* The key after k in the iteration of from's container, as a set: empty at
\* End().
NextKey(h, from, k) ==
    IF h[from].type = "Sequence"
    THEN IF {j \in DOMAIN h[from].seq : j > k} = {} THEN {}
         ELSE {Min({j \in DOMAIN h[from].seq : j > k})}
    ELSE IF {j \in DOMAIN h[from].map : StrLess(k, j)} = {} THEN {}
         ELSE {SortedKeys({j \in DOMAIN h[from].map : StrLess(k, j)})[1]}

\* Begin() of from's container, as a set: empty when Begin() = End().
FirstKey(h, from) ==
    CASE h[from].type = "Sequence" /\ DOMAIN h[from].seq # {} -> {Min(DOMAIN h[from].seq)}
      [] h[from].type = "Map" /\ DOMAIN h[from].map # {} -> {SortedKeys(DOMAIN h[from].map)[1]}
      [] OTHER -> {}

\* (*it).second of from's container at key k.
ChildOf(h, from, k) == IF h[from].type = "Sequence" THEN h[from].seq[k] ELSE h[from].map[k]

\* to.PushBack() or to[(*it).first], as from's type has it.
NewChildFor(m, from, to, k) ==
    IF m.heap[from].type = "Sequence" THEN Node_PushBack(m, to) ELSE Node_ChildAtKey(m, to, k)

\* CopyNode(from, to), with the iterator walking from's container as it is at
\* each step.  Reading a deleted node is undefined behaviour; a recursion
\* deeper than the stack holds ends the process.  CopyLoop is the for loop
\* with its iterator at the keys ks (none at End()), CopyChild one turn of it
\* with newNode just made, and CopyAdvance its it++.
RECURSIVE CopyNode(_, _, _, _), CopyLoop(_, _, _, _, _)
CopyAdvance(m, from, to, k, depth) ==
    IF m.status # "ok" THEN m ELSE CopyLoop(m, from, to, NextKey(m.heap, from, k), depth)

CopyChild(child, r, from, to, k, depth) ==
    CopyAdvance(CopyNode(r.m, child, r.ret, depth - 1), from, to, k, depth)

CopyLoop(m, from, to, ks, depth) ==
    IF m.status # "ok" \/ ks = {} THEN m
    ELSE CopyChild(ChildOf(m.heap, from, CHOOSE k \in ks : TRUE),
                   NewChildFor(m, from, to, CHOOSE k \in ks : TRUE),
                   from, to, CHOOSE k \in ks : TRUE, depth)

CopyNode(m, from, to, depth) ==
    IF m.status # "ok" THEN m
    ELSE IF from \notin m.live \/ to \notin m.live THEN [m EXCEPT !.status = "ub"]
    ELSE IF depth = 0 THEN [m EXCEPT !.status = "exhausted"]
    ELSE IF m.heap[from].type = "Scalar"
    THEN Node_AssignString(m, to, Node_AsString(m.heap, from))
    ELSE CopyLoop(m, from, to, FirstKey(m.heap, from), depth)

\* Node::operator = (const Node &).
Node_AssignNode(m, n, from) == CopyNode(NodeImp_Clear(m, n), from, n, MaxCopyDepth)

\* Iteration from Begin() to End(): the keys visited, in order.
IterateKeys(h, n) ==
    CASE h[n].type = "Sequence" -> SortedIdx(DOMAIN h[n].seq)
      [] h[n].type = "Map"      -> SortedKeys(DOMAIN h[n].map)
      [] OTHER                  -> <<>>

(***************************************************************************)
(* std::string.  Positions are those of the code, counted from 0; npos is  *)
(* the largest size_t, narrowed to a width the strings of the model stay   *)
(* far below, and size_t arithmetic wraps at it.                           *)
(***************************************************************************)
npos == 1048575

\* a - b in size_t.
SizeSub(a, b) == (a - b) % (npos + 1)

\* std::string::find_first_of(chars, pos).
FindFirstOf(s, chars, pos) ==
    IF \E i \in pos..(Len(s) - 1) : s[i + 1] \in chars
    THEN Min({i \in pos..(Len(s) - 1) : s[i + 1] \in chars})
    ELSE npos

\* std::string::find_first_not_of(chars, pos).
FindFirstNotOf(s, chars, pos) ==
    IF \E i \in pos..(Len(s) - 1) : s[i + 1] \notin chars
    THEN Min({i \in pos..(Len(s) - 1) : s[i + 1] \notin chars})
    ELSE npos

\* std::string::find_last_not_of(chars).
FindLastNotOf(s, chars) ==
    IF \E i \in 0..(Len(s) - 1) : s[i + 1] \notin chars
    THEN Max({i \in 0..(Len(s) - 1) : s[i + 1] \notin chars})
    ELSE npos

\* std::string::substr(pos, count), for pos <= size().
Substr(s, pos, count) ==
    SubSeq(s, pos + 1, IF count >= Len(s) - pos THEN Len(s) ELSE pos + count)

\* std::string(n, ' ').
Spaces(n) == [i \in 1..n |-> " "]

\* The lines std::getline hands out until the stream is at its end: the
\* pieces between the newlines, the last of them empty when the text ends in
\* a newline or is empty.
RECURSIVE GetLines(_)
GetLines(s) ==
    IF FindFirstOf(s, {"\n"}, 0) = npos THEN <<s>>
    ELSE <<Substr(s, 0, FindFirstOf(s, {"\n"}, 0))>>
             \o GetLines(Substr(s, FindFirstOf(s, {"\n"}, 0) + 1, npos))

(***************************************************************************)
(* Exceptions: the class thrown, the message constant and the line number  *)
(* the message carries.                                                    *)
(***************************************************************************)
Exception(type, msg, no) == [type |-> type, msg |-> msg, line |-> no]

\* No exception is in flight.
NoError == Exception("none", "", 0)

(***************************************************************************)
(* Quote scanning.                                                         *)
(***************************************************************************)
\* FindQuote's loop with the search at qPos and start as found so far (npos:
\* not found).
RECURSIVE FindQuoteLoop(_, _, _)
FindQuoteLoop(input, searchPos, start) ==
    LET qPos == FindFirstOf(input, {"\"", "'"}, searchPos)
        isQuote == input[qPos + 1] = "\"" /\ (qPos = 0 \/ input[qPos] # "\\")
    IN  IF qPos = npos THEN [found |-> FALSE, start |-> start, end |-> npos]
        ELSE IF isQuote /\ start # npos THEN [found |-> TRUE, start |-> start, end |-> qPos]
        ELSE IF qPos + 1 = Len(input)
        THEN [found |-> FALSE, start |-> IF isQuote THEN qPos ELSE start, end |-> npos]
        ELSE FindQuoteLoop(input, qPos + 1, IF isQuote THEN qPos ELSE start)

FindQuote(input, searchPos) == FindQuoteLoop(input, searchPos, npos)

\* The quotes vector FindNotCited collects, the search being at searchPos and
\* q the quote FindQuote has just found, or not.
RECURSIVE Quotes(_, _)
QuotesFrom(input, q) ==
    IF ~q.found THEN <<>>
    ELSE IF q.end + 1 = Len(input) THEN <<q>>
    ELSE <<q>> \o Quotes(input, q.end + 1)

Quotes(input, searchPos) == QuotesFrom(input, FindQuote(input, searchPos))

\* The second loop of FindNotCited.
RECURSIVE NotCitedLoop(_, _, _, _, _, _)
NotCitedLoop(input, token, tokenPos, quotes, index, count) ==
    IF index > Len(quotes) THEN [pos |-> tokenPos, preQuoteCount |-> count]
    ELSE IF tokenPos < quotes[index].start THEN [pos |-> tokenPos, preQuoteCount |-> count]
    ELSE IF tokenPos <= quotes[index].end
    THEN IF tokenPos + 1 = Len(input) \/ FindFirstOf(input, {token}, tokenPos + 1) = npos
         THEN [pos |-> npos, preQuoteCount |-> count + 1]
         ELSE NotCitedLoop(input, token, FindFirstOf(input, {token}, tokenPos + 1),
                           quotes, index + 1, count + 1)
    ELSE NotCitedLoop(input, token, tokenPos, quotes, index + 1, count + 1)

FindNotCited(input, token) ==
    IF FindFirstOf(input, {token}, 0) = npos THEN [pos |-> npos, preQuoteCount |-> 0]
    ELSE NotCitedLoop(input, token, FindFirstOf(input, {token}, 0), Quotes(input, 0), 1, 0)

(***************************************************************************)
(* The reader.  m_Lines is a sequence of ReaderLine records; an iterator   *)
(* into it is an index, Len + 1 being end().  NextLine, which the reader   *)
(* sets and never reads, is left out.  Flags is the set of flags set.      *)
(***************************************************************************)
ReaderLine(data, no, offset) ==
    [Data |-> data, No |-> no, Offset |-> offset, Type |-> "None", Flags |-> {}]

\* A line that keeps its comment.
ResizeNever(line, pos) == line

\* line.resize(pos) when pos is a position.
Resize(line, pos) == IF pos = npos THEN line ELSE Substr(line, 0, pos)

\* The trailing return removed.
RemoveReturn(line) ==
    IF Len(line) > 0 /\ line[Len(line)] = "\r" THEN Substr(line, 0, Len(line) - 1) ELSE line

\* The positions of the characters ReadLines rejects.
InvalidCharacters(line) ==
    {i \in 0..(Len(line) - 1) :
        line[i + 1] # "\t" /\ (Code(line[i + 1]) < 32 \/ Code(line[i + 1]) > 125)}

\* The first loop of ReadLines, lineNo lines read so far: ReadLine is its
\* body once the comment is off, ReadData what follows the document markers.
RECURSIVE ReadLoop(_, _, _, _)
ReadData(stream, lineNo, lines, documentStartFound, line) ==
    IF Len(line) = 0 THEN ReadLoop(stream, lineNo, lines, documentStartFound)
    ELSE IF InvalidCharacters(line) # {}
    THEN [lines |-> lines,
          err |-> Exception("ParsingException", "g_ErrorInvalidCharacter", lineNo)]
    ELSE ReadLoop(stream, lineNo, Append(lines, ReaderLine(line, lineNo, 0)),
                  documentStartFound)

ReadLine(stream, lineNo, lines, documentStartFound, line) ==
    IF ~documentStartFound /\ line = <<"-", "-", "-">>
    THEN ReadLoop(stream, lineNo, <<>>, TRUE)
    ELSE IF line = <<".", ".", ".">> THEN [lines |-> lines, err |-> NoError]
    ELSE ReadData(stream, lineNo, lines, documentStartFound, RemoveReturn(line))

ReadLoop(stream, lineNo, lines, documentStartFound) ==
    IF lineNo = Len(stream) THEN [lines |-> lines, err |-> NoError]
    ELSE ReadLine(stream, lineNo + 1, lines, documentStartFound,
                  Resize(stream[lineNo + 1], FindNotCited(stream[lineNo + 1], "#").pos))

\* A reader that allows tabs in the offset.
TabAllowed(firstTabPos, startOffset) == FALSE

\* "Do not allow tabs in offset": the condition of the throw.
TabInOffset(firstTabPos, startOffset) == firstTabPos < startOffset

\* The second loop of ReadLines: offsets, with the lines kept so far in out.
RECURSIVE TrimLoop(_, _, _)
TrimLoop(lines, it, out) ==
    LET data == lines[it].Data
        firstTabPos == FindFirstOf(data, {"\t"}, 0)
        startOffset == FindFirstNotOf(data, {" ", "\t"}, 0)
        endOffset == FindLastNotOf(data, {" ", "\t"})
    IN  IF it > Len(lines) THEN [lines |-> out, err |-> NoError]
        ELSE IF startOffset = npos THEN TrimLoop(lines, it + 1, out)
        ELSE IF TabInOffset(firstTabPos, startOffset)
        THEN [lines |-> out \o SubSeq(lines, it, Len(lines)),
              err |-> Exception("ParsingException", "g_ErrorTabInOffset", lines[it].No)]
        ELSE TrimLoop(lines, it + 1,
                      Append(out, [lines[it] EXCEPT
                          !.Data = Substr(Substr(data, startOffset, npos), 0,
                                          endOffset - startOffset + 1),
                          !.Offset = startOffset]))

\* ReadLines, the stream being the text to read.
ReadOffsets(r) == IF r.err # NoError THEN r ELSE TrimLoop(r.lines, 1, <<>>)

ReadLines(stream) == ReadOffsets(ReadLoop(GetLines(stream), 0, <<>>, FALSE))

\* IsSequenceStart.
IsSequenceStart(data) ==
    /\ Len(data) # 0
    /\ data[1] = "-"
    /\ ~(Len(data) >= 2 /\ data[2] # " ")

\* RemoveAllEscapeTokens, the search being at found.
RECURSIVE RemoveEscapeLoop(_, _)
RemoveEscapeLoop(input, found) ==
    IF found = npos \/ found + 1 = Len(input) THEN input
    ELSE RemoveEscapeLoop(Substr(input, 0, found) \o Substr(input, found + 1, npos),
                          FindFirstOf(Substr(input, 0, found) \o Substr(input, found + 1, npos),
                                      {"\\"}, found + 1))

RemoveAllEscapeTokens(input) == RemoveEscapeLoop(input, FindFirstOf(input, {"\\"}, 0))

\* std::list::insert before the iterator it.
ListInsert(lines, it, line) ==
    SubSeq(lines, 1, it - 1) \o <<line>> \o SubSeq(lines, it, Len(lines))

\* std::list::erase at the iterator it.
ListErase(lines, it) == SubSeq(lines, 1, it - 1) \o SubSeq(lines, it + 1, Len(lines))

\* The state of PostProcessLines' loop: m_Lines, the iterator, the exception
\* thrown if any, and what the function just called returned.
PostState(lines, it, ret) == [lines |-> lines, it |-> it, err |-> NoError, ret |-> ret]

\* The exception of class type thrown about line number no.
Throw(st, type, msg, no) == [st EXCEPT !.err = Exception(type, msg, no)]

\* PostProcessSequence.
PostProcessSequence(st) ==
    LET pLine == st.lines[st.it]
        valueStart == FindFirstNotOf(pLine.Data, {" ", "\t"}, 1)
    IN  IF ~IsSequenceStart(pLine.Data) THEN [st EXCEPT !.ret = FALSE]
        ELSE IF valueStart = npos
        THEN PostState([st.lines EXCEPT ![st.it].Type = "Sequence"], st.it + 1, TRUE)
        ELSE PostState(ListInsert([st.lines EXCEPT ![st.it].Type = "Sequence",
                                                   ![st.it].Data = <<>>],
                                  st.it + 1,
                                  ReaderLine(Substr(pLine.Data, valueStart, npos), pLine.No,
                                             pLine.Offset + valueStart)),
                       st.it + 1, FALSE)

\* The flags PostProcessMapping sets for a block scalar header.
HeaderFlags(value) ==
    CASE value = <<"|">>      -> {"LiteralScalarFlag", "ScalarNewlineFlag"}
      [] value = <<">">>      -> {"FoldedScalarFlag", "ScalarNewlineFlag"}
      [] value = <<"|", "-">> -> {"LiteralScalarFlag"}
      [] value = <<">", "-">> -> {"FoldedScalarFlag"}
      [] OTHER                -> {}

\* PostProcessMapping from "Add new line with value" on: the key line is set
\* and the iterator is past it.
MappingValue(st, pLine, tokenPos, valueStart, value) ==
    LET q == FindQuote(value, 0)
        nextDeeper == st.it <= Len(st.lines) /\ st.lines[st.it].Offset > pLine.Offset
        nextNotDeeper == st.it <= Len(st.lines) /\ st.lines[st.it].Offset <= pLine.Offset
    IN  IF Len(value) # 0
        THEN IF HeaderFlags(value) # {}
             THEN [st EXCEPT !.lines[st.it - 1].Flags = @ \cup HeaderFlags(value),
                           !.ret = FALSE]
             ELSE IF nextDeeper
             THEN Throw(st, "ParsingException", "g_ErrorIncorrectOffset", pLine.No)
             ELSE IF q.found \/ value[1] = "\""
             THEN IF q.start = 0 /\ q.end # Len(value) - 1
                  THEN Throw(st, "ParsingException", "g_ErrorValueIncorrect", pLine.No)
                  ELSE PostState(ListInsert(st.lines, st.it,
                                     ReaderLine(Substr(value, 1, SizeSub(Len(value), 2)),
                                                pLine.No, valueStart)),
                                 st.it, FALSE)
             ELSE PostState(ListInsert(st.lines, st.it, ReaderLine(value, pLine.No, valueStart)),
                            st.it, FALSE)
        ELSE IF nextNotDeeper
        THEN PostState(ListInsert(st.lines, st.it,
                           [ReaderLine(<<>>, pLine.No, tokenPos + 1) EXCEPT !.Type = "Scalar"]),
                       st.it + 1, TRUE)
        ELSE [st EXCEPT !.ret = TRUE]

\* PostProcessMapping from "Handle cited key" on, key being the key with the
\* spaces after it removed.
MappingKey(st, t, key) ==
    LET pLine == st.lines[st.it]
        cited == t.preQuoteCount = 1
        valueStart == IF t.pos + 1 # Len(pLine.Data)
                      THEN FindFirstNotOf(pLine.Data, {" ", "\t"}, t.pos + 1)
                      ELSE npos
        value == IF valueStart # npos THEN Substr(pLine.Data, valueStart, npos) ELSE <<>>
    IN  IF cited /\ (key[1] # "\"" \/ key[Len(key)] # "\"")
        THEN Throw(st, "ParsingException", "g_ErrorKeyIncorrect", pLine.No)
        ELSE IF IsSequenceStart(value)
        THEN Throw(st, "ParsingException", "g_ErrorBlockSequenceNotAllowed", pLine.No)
        ELSE MappingValue(
                 PostState([st.lines EXCEPT
                                ![st.it].Type = "Map",
                                ![st.it].Data = RemoveAllEscapeTokens(
                                    IF cited THEN Substr(key, 1, SizeSub(Len(key), 2)) ELSE key)],
                           st.it + 1, FALSE),
                 pLine, t.pos, valueStart, value)

\* PostProcessMapping, t being what FindNotCited has found.
MappingToken(st, t) ==
    LET pLine == st.lines[st.it]
        keyEnd == FindLastNotOf(Substr(pLine.Data, 0, t.pos), {" ", "\t"})
    IN  IF t.pos = npos THEN [st EXCEPT !.ret = FALSE]
        ELSE IF t.preQuoteCount > 1
        THEN Throw(st, "ParsingException", "g_ErrorKeyIncorrect", pLine.No)
        ELSE IF keyEnd = npos
        THEN Throw(st, "ParsingException", "g_ErrorKeyMissing", pLine.No)
        ELSE MappingKey(st, t, Substr(pLine.Data, 0, keyEnd + 1))

PostProcessMapping(st) == MappingToken(st, FindNotCited(st.lines[st.it].Data, ":"))

\* A loop that merges no line.
MergeNothing(lines, it) == lines

\* The while loop of PostProcessScalar: the lines from it on are merged into
\* the line before it as long as they are not less indented.
RECURSIVE MergeLoop(_, _)
MergeLoop(lines, it) ==
    LET pLine == lines[it - 1]
    IN  IF it > Len(lines) \/ lines[it].Offset < pLine.Offset
        THEN IF "ScalarNewlineFlag" \in pLine.Flags
             THEN [lines EXCEPT ![it - 1].Data = @ \o <<"\n">>]
             ELSE lines
        ELSE MergeLoop(
                 ListErase([lines EXCEPT ![it - 1].Data =
                                @ \o (IF "LiteralScalarFlag" \in pLine.Flags
                                      THEN <<"\n">> ELSE <<" ">>)
                                  \o Spaces(lines[it].Offset - pLine.Offset)
                                  \o lines[it].Data],
                           it),
                 it)

\* PostProcessScalar from "Move to next line" on.
ScalarMerge(lines, it) ==
    IF lines[it - 1].Flags \cap {"FoldedScalarFlag", "LiteralScalarFlag"} # {}
    THEN PostState(MergeLoop(lines, it), it, FALSE)
    ELSE PostState(lines, it, FALSE)

\* PostProcessScalar.  After a block scalar header on the last line the
\* iterator is end(), and *it is undefined behaviour.
PostProcessScalar(st) ==
    IF st.it > Len(st.lines) THEN Throw(st, "undefined", "", 0)
    ELSE ScalarMerge([st.lines EXCEPT ![st.it].Type = "Scalar",
                                      ![st.it].Flags = IF st.it # 1
                                                       THEN @ \cup st.lines[st.it - 1].Flags
                                                       ELSE @],
                     st.it + 1)

\* The loop of PostProcessLines.  AfterSequence and AfterMapping are the
\* rest of its body once PostProcessSequence and PostProcessMapping are back.
RECURSIVE PostProcessLoop(_)
AfterMapping(st) ==
    IF st.err # NoError THEN st
    ELSE IF st.ret THEN PostProcessLoop(st)
    ELSE PostProcessLoop(PostProcessScalar(st))

AfterSequence(st) ==
    IF st.err # NoError THEN st
    ELSE IF st.ret THEN PostProcessLoop(st)
    ELSE AfterMapping(PostProcessMapping(st))

PostProcessLoop(st) ==
    IF st.err # NoError \/ st.it > Len(st.lines) THEN st
    ELSE AfterSequence(PostProcessSequence(st))

\* PostProcessLines after its loop.
CheckDocumentEnd(st) ==
    IF st.err # NoError THEN st
    ELSE IF Len(st.lines) # 0 /\ st.lines[Len(st.lines)].Type # "Scalar"
    THEN Throw(st, "ParsingException", "g_ErrorUnexpectedDocumentEnd",
               st.lines[Len(st.lines)].No)
    ELSE st

PostProcessLines(lines) == CheckDocumentEnd(PostProcessLoop(PostState(lines, 1, FALSE)))

\* The state of the Process functions: the machine state, the iterator into
\* m_Lines and the exception thrown if any.
ProcessState(m, it, err) == [m |-> m, it |-> it, err |-> err]

\* ProcessScalar.
ProcessScalar(ps, lines, node) ==
    ProcessState(Node_AssignString(ps.m, node, lines[ps.it].Data), ps.it + 1, ps.err)

\* ProcessSequence and ProcessMap, which differ in how the child is made
\* (type says which).  ProcessLoop is the while loop with its condition,
\* ProcessEntry its body from "Move to next line" on, childNode having been
\* made, ProcessValue the switch over the value's type, and ProcessNext the
\* checks of the line that follows the value.
RECURSIVE ProcessLoop(_, _, _, _)
ProcessValue(ps, lines, childNode) ==
    CASE lines[ps.it].Type = "Sequence" -> ProcessLoop(ps, lines, childNode, "Sequence")
      [] lines[ps.it].Type = "Map"      -> ProcessLoop(ps, lines, childNode, "Map")
      [] lines[ps.it].Type = "Scalar"   -> ProcessScalar(ps, lines, childNode)
      [] OTHER                          -> ps

\* A check that takes whatever line follows as the next entry.
NextIsSibling(ps, lines, node, type, pLine) == ProcessLoop(ps, lines, node, type)

ProcessNext(ps, lines, node, type, pLine) ==
    IF ps.err # NoError \/ ps.m.status # "ok" THEN ps
    ELSE IF ps.it > Len(lines) \/ lines[ps.it].Offset < pLine.Offset THEN ps
    ELSE IF lines[ps.it].Offset > pLine.Offset
    THEN ProcessState(ps.m, ps.it,
             Exception("ParsingException", "g_ErrorIncorrectOffset", lines[ps.it].No))
    ELSE IF lines[ps.it].Type # pLine.Type
    THEN ProcessState(ps.m, ps.it,
             Exception("InternalException", "g_ErrorDiffEntryNotAllowed", lines[ps.it].No))
    ELSE ProcessLoop(ps, lines, node, type)

ProcessEntry(r, it, lines, node, type) ==
    IF r.m.status # "ok" THEN ProcessState(r.m, it, NoError)
    ELSE IF it + 1 > Len(lines)
    THEN ProcessState(r.m, it + 1,
             Exception("InternalException", "g_ErrorUnexpectedDocumentEnd", lines[it].No))
    ELSE ProcessNext(ProcessValue(ProcessState(r.m, it + 1, NoError), lines, r.ret),
                     lines, node, type, lines[it])

ProcessLoop(ps, lines, node, type) ==
    IF ps.err # NoError \/ ps.m.status # "ok" \/ ps.it > Len(lines) THEN ps
    ELSE IF type = "Sequence"
    THEN ProcessEntry(Node_PushBack(ps.m, node), ps.it, lines, node, type)
    ELSE ProcessEntry(Node_ChildAtKey(ps.m, node, lines[ps.it].Data), ps.it, lines, node, type)

ProcessSequence(ps, lines, node) == ProcessLoop(ps, lines, node, "Sequence")

ProcessMap(ps, lines, node) == ProcessLoop(ps, lines, node, "Map")

\* ProcessRoot after its switch.
RootEnd(ps, lines) ==
    IF ps.err # NoError \/ ps.m.status # "ok" \/ ps.it > Len(lines) THEN ps
    ELSE ProcessState(ps.m, ps.it,
             Exception("InternalException", "g_ErrorUnexpectedDocumentEnd", lines[1].No))

ProcessRoot(m, lines, root) ==
    IF Len(lines) = 0 THEN ProcessState(m, 1, NoError)
    ELSE CASE lines[1].Type = "Sequence" ->
                  RootEnd(ProcessSequence(ProcessState(m, 1, NoError), lines, root), lines)
           [] lines[1].Type = "Map" ->
                  RootEnd(ProcessMap(ProcessState(m, 1, NoError), lines, root), lines)
           [] lines[1].Type = "Scalar" ->
                  RootEnd(ProcessScalar(ProcessState(m, 1, NoError), lines, root), lines)
           [] OTHER -> RootEnd(ProcessState(m, 1, NoError), lines)

\* ReaderImp::ClearLines: every ReaderLine is deleted and the list cleared.
ClearLines(lines) == SubSeq(lines, 1, 0)

\* What Parse hands back: the machine state, the exception that reaches the
\* caller, and the ReaderLine objects that were not deleted.
ParseResult(m, err, lines) == [m |-> m, err |-> err, lines |-> lines]

\* A catch block that rethrows and does nothing else.
CaughtKeepsTree(m, root, err, lines) == ParseResult(m, err, lines)

\* The catch block of ReaderImp::Parse; a call that ran into undefined
\* behaviour has no defined state to come back to.
Caught(m, root, err, lines) ==
    IF err.type = "undefined" THEN ParseResult([m EXCEPT !.status = "ub"], err, lines)
    ELSE ParseResult(Node_Clear(m, root), err, ClearLines(lines))

\* ReaderImp::Parse and the Parse functions over it: what is left of the
\* try block when ReadLines, PostProcessLines and ProcessRoot are back, and
\* delete pImp, whose destructor clears the lines.
ParseRoot(ps, root, lines) ==
    IF ps.err # NoError THEN Caught(ps.m, root, ps.err, lines)
    ELSE ParseResult(ps.m, NoError, ClearLines(lines))

ParsePost(m, root, st) ==
    IF st.err # NoError THEN Caught(m, root, st.err, st.lines)
    ELSE ParseRoot(ProcessRoot(m, st.lines, root), root, st.lines)

ParseLines(m, root, r) ==
    IF m.status # "ok" THEN ParseResult(m, NoError, r.lines)
    ELSE IF r.err # NoError THEN Caught(m, root, r.err, r.lines)
    ELSE ParsePost(m, root, PostProcessLines(r.lines))

\* A Parse that does not clear the root first.
ParseOnto(m, root, stream) == ParseLines(m, root, ReadLines(stream))

Parse(m, root, stream) == ParseLines(Node_Clear(m, root), root, ReadLines(stream))

(***************************************************************************)
(* The emitter.                                                            *)
(***************************************************************************)
\* SerializeConfig.
SerializeConfig(spaceIndentation, scalarMaxLength, sequencMapNewline, mapScalarNewline) ==
    [SpaceIndentation |-> spaceIndentation, ScalarMaxLength |-> scalarMaxLength,
     SequencMapNewline |-> sequencMapNewline, MapScalarNewline |-> mapScalarNewline]

\* LineFolding's loop: the lines folded so far and the rest from lastPos on.
RECURSIVE FoldLoop(_, _, _, _)
FoldLoop(input, maxLength, lastPos, folded) ==
    LET currentPos == lastPos + maxLength
        spacePos == FindFirstOf(input, {" "}, currentPos)
    IN  IF currentPos >= Len(input) \/ spacePos = npos
        THEN IF Len(Substr(input, lastPos, npos)) # 0
             THEN Append(folded, Substr(input, lastPos, npos))
             ELSE folded
        ELSE FoldLoop(input, maxLength, spacePos + 1,
                      Append(folded, Substr(input, lastPos, spacePos - lastPos)))

LineFolding(input, maxLength) ==
    IF Len(input) = 0 THEN <<>> ELSE FoldLoop(input, maxLength, 0, <<>>)

\* AddEscapeTokens for one token, the search being at found.
RECURSIVE EscapeLoop(_, _, _)
EscapeLoop(input, token, found) ==
    IF found = npos THEN input
    ELSE EscapeLoop(Substr(input, 0, found) \o <<"\\", token>> \o Substr(input, found + 1, npos),
                    token,
                    FindFirstOf(Substr(input, 0, found) \o <<"\\", token>>
                                    \o Substr(input, found + 1, npos),
                                {token}, found + 2))

\* AddEscapeTokens(input, "\\\"").
AddEscapeTokens(input) ==
    EscapeLoop(EscapeLoop(input, "\\", FindFirstOf(input, {"\\"}, 0)), "\"",
               FindFirstOf(EscapeLoop(input, "\\", FindFirstOf(input, {"\\"}, 0)), {"\""}, 0))

KeyShouldBeCited(key) ==
    FindFirstOf(key, {"\"", ":", "{", "}", "[", "]", ",", "&", "*", "#", "?", "|", "-", "<",
                      ">", "=", "!", "%", "@"}, 0) # npos

\* The lines of a block scalar, each at the level.
RECURSIVE BlockLines(_, _)
BlockLines(lines, level) ==
    IF lines = <<>> THEN <<>>
    ELSE Spaces(level) \o Head(lines) \o <<"\n">> \o BlockLines(Tail(lines), level)

\* SerializeLoop for a scalar that is not empty, lines being what getline
\* makes of it.
SerializeScalar(value, lines, useLevel, level, config) ==
    LET endNewline == Len(lines[Len(lines)]) = 0
        kept == IF endNewline THEN SubSeq(lines, 1, Len(lines) - 1) ELSE lines
        chomp == IF endNewline THEN <<>> ELSE <<"-">>
    IN  IF Len(kept) > 1
        THEN <<"|">> \o chomp \o <<"\n">> \o BlockLines(kept, level)
        ELSE IF \/ config.ScalarMaxLength = 0
                \/ Len(kept[1]) <= config.ScalarMaxLength
                \/ Len(LineFolding(kept[1], config.ScalarMaxLength)) = 1
        THEN (IF useLevel THEN Spaces(level) ELSE <<>>) \o value \o <<"\n">>
        ELSE <<">">> \o chomp \o <<"\n">>
                 \o BlockLines(LineFolding(kept[1], config.ScalarMaxLength), level)

\* The key of a map entry as SerializeLoop writes it.
SerializeKey(key) ==
    IF KeyShouldBeCited(key) THEN <<"\"">> \o key \o <<"\"", ":", " ">> ELSE key \o <<":", " ">>

\* SerializeLoop; SerializeSequence and SerializeMap are its two for loops,
\* at the keys of m_Sequence and m_Map from the it-th on.
RECURSIVE SerializeLoop(_, _, _, _, _), SerializeSequence(_, _, _, _, _),
          SerializeMap(_, _, _, _, _, _, _)
SerializeSequence(h, node, it, level, config) ==
    LET keys == SortedIdx(DOMAIN h[node].seq)
        value == h[node].seq[keys[it]]
        newline == \/ h[value].type = "Sequence"
                   \/ (h[value].type = "Map" /\ config.SequencMapNewline)
    IN  IF it > Len(keys) THEN <<>>
        ELSE IF h[value].type = "None" THEN SerializeSequence(h, node, it + 1, level, config)
        ELSE Spaces(level) \o <<"-", " ">> \o (IF newline THEN <<"\n">> ELSE <<>>)
                 \o SerializeLoop(h, value, newline, level + 2, config)
                 \o SerializeSequence(h, node, it + 1, level, config)

SerializeMap(h, node, it, useLevel, count, level, config) ==
    LET keys == SortedKeys(DOMAIN h[node].map)
        value == h[node].map[keys[it]]
        newline == h[value].type # "Scalar" \/ config.MapScalarNewline
    IN  IF it > Len(keys) THEN <<>>
        ELSE IF h[value].type = "None"
        THEN SerializeMap(h, node, it + 1, useLevel, count, level, config)
        ELSE (IF useLevel \/ count > 0 THEN Spaces(level) ELSE <<>>)
                 \o SerializeKey(AddEscapeTokens(keys[it]))
                 \o (IF newline THEN <<"\n">> ELSE <<>>)
                 \o SerializeLoop(h, value, newline, level + config.SpaceIndentation, config)
                 \o SerializeMap(h, node, it + 1, TRUE, count + 1, level, config)

SerializeLoop(h, node, useLevel, level, config) ==
    CASE h[node].type = "Sequence" -> SerializeSequence(h, node, 1, level, config)
      [] h[node].type = "Map" -> SerializeMap(h, node, 1, useLevel, 0, level, config)
      [] h[node].type = "Scalar" ->
             IF Len(h[node].data) = 0 THEN <<"\n">>
             ELSE SerializeScalar(h[node].data, GetLines(h[node].data), useLevel, level, config)
      [] OTHER -> <<>>

\* Serialize(root, string, config): the text, or the exception thrown.
Serialize(h, root, config) ==
    IF config.SpaceIndentation < 2
    THEN [out |-> <<>>, err |-> Exception("OperationException", "g_ErrorIndentation", 0)]
    ELSE [out |-> SerializeLoop(h, root, FALSE, 0, config), err |-> NoError]

\* The tree under node n as a value: kind, payload and children by key.
RECURSIVE TreeOf(_, _)
TreeOf(h, n) ==
    [type |-> h[n].type,
     data |-> Node_AsString(h, n),
     seq  |-> [i \in DOMAIN h[n].seq |-> TreeOf(h, h[n].seq[i])],
     map  |-> [k \in DOMAIN h[n].map |-> TreeOf(h, h[n].map[k])]]

(***************************************************************************)
(* The caller: one action per operation of Node, applied through any       *)
(* reference to a Node object that is not deleted.  A reference to         *)
(* g_NoneNode is to be had at any time (a child-at miss on a temporary),   *)
(* and so is one to any other node, by navigation or because the call that *)
(* made the node returned it.                                              *)
(***************************************************************************)
Keys == {<<"a">>, <<"b">>}
\* The callers of the process, each with a Node object of its own.
Owners == {"A", "B"}
\* No call of FindNotCited has been made.
NoScan == [input |-> <<>>, token |-> "#", pos |-> npos, count |-> 0, called |-> FALSE]
Values == {<<"x">>}
Indices == 0..MaxIndex

Machine == [heap |-> heap, live |-> live, status |-> status]

\* The addresses of the model: g_NoneNode, the root, and MaxNodes more.
Addresses == 0..(Max(Roots) + MaxNodes)

\* The call returned normally with machine state m, or it did not: then the
\* process state is of no further use and is left as it was.
Returned(m) ==
    /\ status = "ok"
    /\ IF m.status = "ok"
       THEN /\ DOMAIN m.heap \subseteq Addresses
            /\ heap' = m.heap
            /\ live' = m.live
            /\ status' = "ok"
       ELSE /\ status' = m.status
            /\ UNCHANGED <<heap, live>>

\* A call of a Node member function by the one caller of a tree.
Commit(m) ==
    /\ Returned(m)
    /\ UNCHANGED <<phase, inputText, usedConfig, outputText, original, error>>
    /\ UNCHANGED <<m_Lines, held, scan>>

Clear(self) == Commit(Node_Clear(Machine, self))

AssignString(self, value) == Commit(Node_AssignString(Machine, self, value))

AssignNode(self, from) == Commit(Node_AssignNode(Machine, self, from))

Insert(self, index) == Commit(Node_Insert(Machine, self, index).m)

PushFront(self) == Commit(Node_PushFront(Machine, self).m)

PushBack(self) == Commit(Node_PushBack(Machine, self).m)

ChildAt(self, index) == Commit(Node_ChildAt(Machine, self, index).m)

ChildAtKey(self, key) == Commit(Node_ChildAtKey(Machine, self, key).m)

EraseAt(self, index) == Commit(Node_EraseAt(Machine, self, index))

EraseKey(self, key) == Commit(Node_EraseKey(Machine, self, key))

vars ==
    <<heap, live, status, phase, inputText, usedConfig, outputText, original, error,
      m_Lines, held, scan>>

Init ==
    /\ heap = [a \in {g_NoneNode} \cup Roots |-> NodeImp]
    /\ live = {g_NoneNode} \cup Roots
    /\ status = "ok"
    /\ phase = "build"
    /\ inputText = {}
    /\ usedConfig = SerializeConfig(2, 0, FALSE, FALSE)
    /\ outputText = <<>>
    /\ original = NodeImp
    /\ error = NoError
    /\ m_Lines = <<>>
    /\ held = [o \in Owners |-> {}]
    /\ scan = NoScan

Next ==
    \/ \E self \in live : Clear(self)
    \/ \E self \in live, value \in Values : AssignString(self, value)
    \/ \E self \in live, from \in live : AssignNode(self, from)
    \/ \E self \in live, index \in Indices : Insert(self, index)
    \/ \E self \in live : PushFront(self)
    \/ \E self \in live : PushBack(self)
    \/ \E self \in live, index \in Indices : ChildAt(self, index)
    \/ \E self \in live, key \in Keys : ChildAtKey(self, key)
    \/ \E self \in live, index \in Indices : EraseAt(self, index)
    \/ \E self \in live, key \in Keys : EraseKey(self, key)

Spec == Init /\ [][Next]_vars

(***************************************************************************)
(* Two callers, A and B, each with a root Node object of its own and with  *)
(* the references its calls have returned to it.  A caller makes its calls *)
(* on the nodes of its tree and on the references it holds.                *)
(***************************************************************************)
\* The root Node object of a caller.
TreeRoot(o) == IF o = "A" THEN 1 ELSE 2

\* The nodes of the tree under node n.
RECURSIVE TreeNodes(_, _)
TreeNodes(h, n) ==
    {n} \cup UNION {TreeNodes(h, ImpChildren(h, n)[i]) : i \in DOMAIN ImpChildren(h, n)}

\* The Node objects a caller can make a call on.
Refs(o) == (TreeNodes(heap, TreeRoot(o)) \cup held[o]) \cap live

\* A call by caller o is back with the reference r.ret.
TreeCall(o, r) ==
    /\ Returned(r.m)
    /\ held' = [held EXCEPT ![o] = @ \cup (IF r.m.status = "ok" THEN {r.ret} ELSE {})]
    /\ UNCHANGED <<phase, inputText, usedConfig, outputText, original, error>>
    /\ UNCHANGED <<m_Lines, scan>>

\* The calls caller o makes.
Performs(o) ==
    \/ \E self \in Refs(o) : TreeCall(o, Node_PushBack(Machine, self))
    \/ \E self \in Refs(o), index \in Indices :
           TreeCall(o, Node_ChildAt(Machine, self, index))
    \/ \E self \in Refs(o), key \in Keys :
           TreeCall(o, Node_ChildAtKey(Machine, self, key))
    \/ \E self \in Refs(o), value \in Values :
           TreeCall(o, Result(Node_AssignString(Machine, self, value), self))

InitTrees ==
    /\ heap = [a \in {g_NoneNode} \cup {TreeRoot(o) : o \in Owners} |-> NodeImp]
    /\ live = {g_NoneNode} \cup {TreeRoot(o) : o \in Owners}
    /\ status = "ok"
    /\ phase = "build"
    /\ inputText = {}
    /\ usedConfig = SerializeConfig(2, 0, FALSE, FALSE)
    /\ outputText = <<>>
    /\ original = NodeImp
    /\ error = NoError
    /\ m_Lines = <<>>
    /\ held = [o \in Owners |-> {}]
    /\ scan = NoScan

NextTrees ==
    \/ Performs("A")
    \/ Performs("B")

SpecTrees == InitTrees /\ [][NextTrees]_vars

(***************************************************************************)
(* The caller of FindNotCited: one call, on a line and a token.            *)
(***************************************************************************)
\* Longest line searched.
MaxScanLen == 5

\* The lines searched: quotes, tokens, the escape character and a letter.
ScanInputs ==
    UNION {[1..n -> {"\"", "'", "#", ":", "\\", "a"}] : n \in 0..MaxScanLen}

\* FindNotCited(input, token, preQuoteCount).
ScanCall ==
    /\ ~scan.called
    /\ scan' = [scan EXCEPT !.pos = FindNotCited(scan.input, scan.token).pos,
                            !.count = FindNotCited(scan.input, scan.token).preQuoteCount,
                            !.called = TRUE]
    /\ UNCHANGED <<heap, live, status, phase, inputText, usedConfig, outputText>>
    /\ UNCHANGED <<original, error, m_Lines, held>>

InitScan ==
    /\ heap = [a \in {g_NoneNode} \cup Roots |-> NodeImp]
    /\ live = {g_NoneNode} \cup Roots
    /\ status = "ok"
    /\ phase = "build"
    /\ inputText = {}
    /\ usedConfig = SerializeConfig(2, 0, FALSE, FALSE)
    /\ outputText = <<>>
    /\ original = NodeImp
    /\ error = NoError
    /\ m_Lines = <<>>
    /\ held = [o \in Owners |-> {}]
    /\ scan \in {[NoScan EXCEPT !.input = s, !.token = tk] :
                     s \in ScanInputs, tk \in {"#", ":"}}

SpecScan == InitScan /\ [][ScanCall]_vars

(***************************************************************************)
(* The caller of LineFolding: SerializeLoop folds the one line of a scalar *)
(* that is longer than ScalarMaxLength.                                    *)
(***************************************************************************)
\* Longest line folded, and largest ScalarMaxLength.
MaxFoldLen == 5

MaxFoldWidth == 2

\* The lines folded: letters and spaces.
FoldInputs == UNION {[1..n -> {"a", " "}] : n \in 1..MaxFoldLen}

\* LineFolding(frontLine, lines, config.ScalarMaxLength).
FoldCall ==
    /\ ~scan.called
    /\ scan' = [scan EXCEPT !.folded = LineFolding(scan.input, scan.maxLength),
                            !.called = TRUE]
    /\ UNCHANGED <<heap, live, status, phase, inputText, usedConfig, outputText>>
    /\ UNCHANGED <<original, error, m_Lines, held>>

InitFold ==
    /\ heap = [a \in {g_NoneNode} \cup Roots |-> NodeImp]
    /\ live = {g_NoneNode} \cup Roots
    /\ status = "ok"
    /\ phase = "build"
    /\ inputText = {}
    /\ usedConfig = SerializeConfig(2, 0, FALSE, FALSE)
    /\ outputText = <<>>
    /\ original = NodeImp
    /\ error = NoError
    /\ m_Lines = <<>>
    /\ held = [o \in Owners |-> {}]
    /\ scan \in {[input |-> s, maxLength |-> l, folded |-> <<>>, called |-> FALSE] :
                     s \in FoldInputs, l \in 1..MaxFoldWidth}
    /\ Len(scan.input) > scan.maxLength

SpecFold == InitFold /\ [][FoldCall]_vars

(***************************************************************************)
(* The caller of Serialize and Parse: a tree is built through the node     *)
(* operations, or parsed from a text, then serialized, and the text that   *)
(* comes out is parsed into the same root.                                 *)
(***************************************************************************)
\* Longest input text, in lines.
MaxLines == 2

\* The scalar payloads the caller assigns.
Payloads ==
    {<<"x">>, <<" ", "x">>, <<"x", " ", "y">>, <<"a", "\n", "b">>, <<"a", "\n", "b", "\n">>}

\* The keys the caller of Serialize asks for: a plain one, and one that holds
\* the separator twice.
TextKeys == {<<"a">>, <<":", ":">>}

\* The lines the input texts are made of.
LinePool ==
    {<<"k", ":", " ", "x">>,
     <<"a", ":", " ", "x">>,
     <<"k", ":", " ", "\"", "\"">>,
     <<"k", ":", " ", "\"", " ", "x", "\"">>,
     <<"k", ":">>,
     <<"k", ":", " ", "|">>,
     <<"-", " ", "x">>,
     <<" ", " ", "x">>,
     <<" ", "\t", "x">>,
     <<"k", ":", " ", "x", "\t", "y">>}

\* The texts of n lines, each line ended by a newline.
RECURSIVE Texts(_)
Texts(n) ==
    IF n = 0 THEN {<<>>}
    ELSE {line \o <<"\n">> \o rest : line \in LinePool, rest \in Texts(n - 1)}

\* Texts of their own: the empty text; block scalars of two content lines
\* under each header, the second line as deep as the first or deeper, at the
\* end of the text or before another entry; a value with a quoted span in
\* its middle; a sequence entry in a sequence entry; entries that start
\* deeper than the line after them; a map in a map before another entry; a
\* key that comes twice with a map as its value; a start marker.
Documents ==
    {<<"k", ":", " ">> \o header \o <<"\n", " ", " ", "x", "\n">> \o second \o after :
         header \in {<<"|">>, <<">">>, <<"|", "-">>, <<">", "-">>},
         second \in {<<" ", " ", "x", "\n">>, <<" ", " ", " ", "x", "\n">>},
         after \in {<<>>, <<"a", ":", " ", "x", "\n">>}}
    \cup
    {<<>>,
     <<"k", ":", " ", "a", " ", "\"", "b", "\"", " ", "a", "\n">>,
     <<"-", " ", "-", " ", "x", "\n">>,
     <<" ", " ", "k", ":", " ", "x", "\n", "a", ":", " ", "x", "\n">>,
     <<" ", " ", "-", " ", "x", "\n", "-", " ", "x", "\n">>,
     <<"k", ":", "\n", " ", " ", "a", ":", " ", "x", "\n", "a", ":", " ", "x", "\n">>,
     <<"k", ":", "\n", " ", " ", "a", ":", " ", "x", "\n",
       "k", ":", "\n", " ", " ", "b", ":", " ", "x", "\n">>,
     <<"-", "-", "-", "\n", "k", ":", " ", "x", "\n">>}

Inputs == UNION {Texts(n) : n \in 1..MaxLines} \cup Documents

Configs ==
    {SerializeConfig(2, l, s, n) : l \in {0, 1}, s \in BOOLEAN, n \in BOOLEAN}

\* The call of Parse is back: its machine state and its exception.
Parsed(r, next) ==
    /\ heap' = r.m.heap
    /\ live' = r.m.live
    /\ status' = r.m.status
    /\ error' = r.err
    /\ m_Lines' = r.lines
    /\ phase' = next

\* The call of Serialize is back: its text and its exception.
Serialized(r) ==
    /\ outputText' = r.out
    /\ error' = r.err
    /\ phase' = "emitted"

\* Yaml::Parse(root, stream), whatever the root holds.
ParseInput(root, stream) ==
    /\ phase = "build"
    /\ status = "ok"
    /\ inputText' = {stream}
    /\ Parsed(Parse(Machine, root, stream), "parsed")
    /\ UNCHANGED <<usedConfig, outputText, original, held, scan>>

\* Yaml::Serialize(root, string, cfg).
Emit(root, cfg) ==
    /\ phase \in {"build", "parsed"}
    /\ status = "ok"
    /\ error = NoError
    /\ usedConfig' = cfg
    /\ original' = TreeOf(heap, root)
    /\ Serialized(Serialize(heap, root, cfg))
    /\ UNCHANGED <<heap, live, status, inputText, m_Lines, held, scan>>

\* Yaml::Parse(root, string).
Reparse(root) ==
    /\ phase = "emitted"
    /\ status = "ok"
    /\ error = NoError
    /\ Parsed(Parse(Machine, root, outputText), "done")
    /\ UNCHANGED <<inputText, usedConfig, outputText, original, held, scan>>

NextText ==
    \/ \E self \in live \ {g_NoneNode} : phase = "build" /\ PushBack(self)
    \/ \E self \in live \ {g_NoneNode}, key \in TextKeys :
           phase = "build" /\ ChildAtKey(self, key)
    \/ \E self \in live \ {g_NoneNode}, value \in Payloads :
           phase = "build" /\ AssignString(self, value)
    \/ \E root \in Roots, stream \in Inputs : ParseInput(root, stream)
    \/ \E root \in Roots, cfg \in Configs : Emit(root, cfg)
    \/ \E root \in Roots : Reparse(root)

SpecText == Init /\ [][NextText]_vars

(***************************************************************************)
(* Properties of Serialize and Parse.                                      *)
(***************************************************************************)
\* The characters of a string.
Chars(str) == {str[i] : i \in 1..Len(str)}

\* A tree of maps, sequences and scalars only, the scalar payloads printable
\* ASCII without '"', ':', '#' and newline.
RECURSIVE PlainTree(_)
PlainTree(t) ==
    /\ t.type \in {"Map", "Sequence", "Scalar"}
    /\ \A c \in Chars(t.data) :
           Code(c) >= 32 /\ Code(c) <= 126 /\ c \notin {"\"", ":", "#", "\n"}
    /\ \A i \in DOMAIN t.seq : PlainTree(t.seq[i])
    /\ \A k \in DOMAIN t.map : PlainTree(t.map[k])

\* The second Parse succeeded and made the tree that was serialized.
SameTreeBack ==
    /\ status = "ok"
    /\ error = NoError
    /\ \A root \in Roots : TreeOf(heap, root) = original

\* C1: round-trip structure.  A tree of maps, sequences and scalars with
\* plain payloads, built through the node operations, serialized and then
\* parsed, comes back structurally equal.
C1_RoundTrip ==
    (phase = "done" /\ inputText = {} /\ PlainTree(original)) => SameTreeBack

\* C2: parse, emit, parse.  The tree a text parsed to, serialized with any
\* valid configuration and parsed again, comes back structurally identical.
C2_ParseEmitParse ==
    (phase = "done" /\ inputText # {} /\ usedConfig.SpaceIndentation >= 2) => SameTreeBack

\* A scalar whose payload contains a newline.
NewlineScalar(t) == t.type = "Scalar" /\ "\n" \in Chars(t.data)

\* C3: newline-preserving round trip.  With space indentation >= 2 and
\* scalar-max-length 0, a scalar with a newline in its payload comes back
\* byte for byte, be it the root, a map value or a sequence element.
C3_NewlineRoundTrip ==
    (/\ phase = "done"
     /\ usedConfig.SpaceIndentation >= 2
     /\ usedConfig.ScalarMaxLength = 0)
    => \A root \in Roots :
        /\ NewlineScalar(original) =>
               /\ error = NoError
               /\ TreeOf(heap, root) = original
        /\ \A k \in DOMAIN original.map :
               NewlineScalar(original.map[k]) =>
                   /\ error = NoError
                   /\ Node_Type(heap, root) = "Map"
                   /\ k \in DOMAIN heap[root].map
                   /\ TreeOf(heap, heap[root].map[k]) = original.map[k]
        /\ \A i \in DOMAIN original.seq :
               NewlineScalar(original.seq[i]) =>
                   /\ error = NoError
                   /\ Node_Type(heap, root) = "Sequence"
                   /\ i \in DOMAIN heap[root].seq
                   /\ TreeOf(heap, heap[root].seq[i]) = original.seq[i]

\* C13: parse failure atomicity.  When a Parse has thrown, in whatever phase
\* and whatever the root held before, the ReaderLine list is empty and the
\* root is None.
C13_FailureAtomicity ==
    (phase \in {"parsed", "done"} /\ status = "ok" /\ error # NoError)
    => /\ m_Lines = <<>>
       /\ \A root \in Roots : heap[root] = NodeImp

\* A Parse that threw in ProcessMap, after it had made the first entry's
\* node, and left the root None and no line behind.
C13_Witness ==
    /\ phase = "parsed"
    /\ status = "ok"
    /\ error.msg = "g_ErrorDiffEntryNotAllowed"
    /\ Cardinality(DOMAIN heap) > Cardinality(live)
    /\ m_Lines = <<>>
    /\ \A root \in Roots : heap[root] = NodeImp

\* The kinds of failure the taxonomy calls parsing errors, and those it
\* calls internal errors.
ParsingErrors ==
    {"g_ErrorInvalidCharacter", "g_ErrorTabInOffset", "g_ErrorKeyMissing",
     "g_ErrorKeyIncorrect", "g_ErrorValueIncorrect", "g_ErrorBlockSequenceNotAllowed",
     "g_ErrorIncorrectOffset", "g_ErrorDiffEntryNotAllowed"}

InternalErrors == {"g_ErrorUnexpectedDocumentEnd", "g_ErrorSequenceError"}

\* C14: error taxonomy.  A Parse that throws a failure of a parsing kind
\* throws a ParsingException, and one that throws a failure of an internal
\* kind throws an InternalException, wherever the reader raises it.
C14_ErrorTaxonomy ==
    (phase \in {"parsed", "done"} /\ status = "ok")
    => /\ error.msg \in ParsingErrors => error.type = "ParsingException"
       /\ error.msg \in InternalErrors => error.type = "InternalException"

\* A process in which only g_NoneNode and an empty root exist.
NewMachine ==
    [heap |-> [a \in {g_NoneNode} \cup Roots |-> NodeImp],
     live |-> {g_NoneNode} \cup Roots,
     status |-> "ok"]

\* The outcome of a Parse: it failed, by a throw or by a crash, or it
\* succeeded with a tree.
Outcome(m, err, root) ==
    IF m.status # "ok" \/ err # NoError
    THEN [fails |-> TRUE, tree |-> NodeImp]
    ELSE [fails |-> FALSE, tree |-> TreeOf(m.heap, root)]

\* The outcome of Parse(root, text) in a new process.
OutcomeOf(r, root) == Outcome(r.m, r.err, root)

\* The comment texts appended.
Comments == {<<>>, <<"a">>, <<"\"">>, <<"k", ":", " ", "x">>, <<"-", " ", "x">>}

\* s + "\n# " + c + "\n".
WithComment(s, c) == s \o <<"\n", "#", " ">> \o c \o <<"\n">>

\* C15: comment invariance.  The Parse of a text s and the Parse of s with
\* a comment line appended have the same outcome: both fail, or both succeed
\* with equal trees.
C15_CommentInvariance ==
    phase = "parsed"
    => \A root \in Roots, s \in inputText, c \in Comments :
           OutcomeOf(Parse(NewMachine, root, WithComment(s, c)), root)
               = Outcome(Machine, error, root)

\* A text of two map entries has been parsed with success, and with a
\* comment appended it parses to the same map.
C15_Witness ==
    /\ phase = "parsed"
    /\ status = "ok"
    /\ error = NoError
    /\ \A root \in Roots :
           /\ Node_Type(heap, root) = "Map"
           /\ Node_Size(heap, root) = 2
           /\ \A s \in inputText, c \in Comments :
                  OutcomeOf(Parse(NewMachine, root, WithComment(s, c)), root)
                      = [fails |-> FALSE, tree |-> TreeOf(heap, root)]

\* Lines put outside the document window.
OutsideLines == {<<"x">>, <<"k", ":", " ", "x">>, <<"~">>}

\* C16: document window.  Whatever a line before the start marker '---' or
\* after the end marker '...' holds, it changes neither the tree nor the
\* success of the Parse, and a '---' after '...' starts no new document.
C16_DocumentWindow ==
    phase = "parsed"
    => \A root \in Roots, s \in inputText, o \in OutsideLines :
           /\ OutcomeOf(Parse(NewMachine, root,
                              o \o <<"\n", "-", "-", "-", "\n">> \o s), root)
                  = Outcome(Machine, error, root)
           /\ OutcomeOf(Parse(NewMachine, root,
                              s \o <<".", ".", ".", "\n">> \o o \o <<"\n">>), root)
                  = Outcome(Machine, error, root)
           /\ OutcomeOf(Parse(NewMachine, root,
                              s \o <<".", ".", ".", "\n", "-", "-", "-", "\n">>
                                \o o \o <<"\n">>), root)
                  = Outcome(Machine, error, root)

\* The line has a tab before its first character that is neither a space
\* nor a tab.
IndentTab(line) ==
    \E i \in 1..Len(line) :
        /\ line[i] = "\t"
        /\ \A j \in 1..(i - 1) : line[j] \in {" ", "\t"}
        /\ \E j \in (i + 1)..Len(line) : line[j] \notin {" ", "\t"}

\* The 1-based numbers of the lines of a text that have such a tab.
IndentTabLines(s) == {i \in 1..Len(GetLines(s)) : IndentTab(GetLines(s)[i])}

\* C17: tab in indentation.  The Parse of a text in which some line has a
\* tab in its indentation throws the parsing error tab-in-offset with the
\* number of the first such line; the Parse of a text whose tabs all come
\* after the first character of their line does not throw it.
C17_TabInOffset ==
    phase = "parsed"
    => \A s \in inputText :
           /\ IndentTabLines(s) # {} =>
                  /\ status = "ok"
                  /\ error = Exception("ParsingException", "g_ErrorTabInOffset",
                                       Min(IndentTabLines(s)))
           /\ IndentTabLines(s) = {} => error.msg # "g_ErrorTabInOffset"

\* A text whose second line is the first with a tab in its indentation has
\* been parsed, and the error names line 2.
C17_Witness ==
    /\ phase = "parsed"
    /\ status = "ok"
    /\ \E s \in inputText : IndentTabLines(s) = {2}
    /\ error = Exception("ParsingException", "g_ErrorTabInOffset", 2)
    /\ \A root \in Roots : heap[root] = NodeImp

\* The last line of a text that ends in a newline, and the text before it.
LastLine(s) == GetLines(s)[Len(GetLines(s)) - 1]

BeforeLastLine(s) == SubSeq(s, 1, Len(s) - Len(LastLine(s)) - 1)

\* Last lines that are not scalars: a bare sequence marker, a key without a
\* value, and a key with a block scalar header.
OpenEnds ==
    {<<"-">>, <<"k", ":">>, <<"k", ":", " ", "|">>, <<"k", ":", " ", ">">>,
     <<"k", ":", " ", "|", "-">>, <<"k", ":", " ", ">", "-">>}

\* C20: end-of-document check.  The Parse of a text whose last line is not
\* a scalar, the lines before it being a text that parses, throws
\* unexpected-document-end and leaves the root None; it does not read past
\* the end of the line list.
C20_EndOfDocument ==
    phase = "parsed"
    => \A root \in Roots, s \in inputText :
           (/\ Len(GetLines(s)) >= 2
            /\ LastLine(s) \in OpenEnds
            /\ ~OutcomeOf(Parse(NewMachine, root, BeforeLastLine(s)), root).fails)
           => /\ status = "ok"
              /\ error.msg = "g_ErrorUnexpectedDocumentEnd"
              /\ heap[root] = NodeImp

\* The lines ReadLines keeps of a text that it reads without a throw, and
\* what PostProcessLines makes of them.
ReadOf(s) == ReadLines(s).lines

ReadsWell(s) == ReadLines(s).err = NoError

PostOf(s) == PostProcessLines(ReadLines(s).lines)

\* The block scalar indicators, and a line that is the key k with one of
\* them as its value.
Indicators == {<<"|">>, <<">">>, <<"|", "-">>, <<">", "-">>}

HeaderLine(line) == \E h \in Indicators : line.Data = <<"k", ":", " ">> \o h

IndicatorOf(line) == Substr(line.Data, 3, npos)

\* The text starts with such a line and has a line after it.
BlockText(s) == ReadsWell(s) /\ Len(ReadOf(s)) >= 2 /\ HeaderLine(ReadOf(s)[1])

\* p is the beginning of str.
IsPrefix(p, str) == Len(p) <= Len(str) /\ SubSeq(str, 1, Len(p)) = p

\* The Parse succeeded, and the root is a map in which key has the scalar
\* value.
Stored(root, key, value) ==
    /\ status = "ok"
    /\ error = NoError
    /\ Node_Type(heap, root) = "Map"
    /\ key \in DOMAIN heap[root].map
    /\ TreeOf(heap, heap[root].map[key]) = [NodeImp EXCEPT !.type = "Scalar", !.data = value]

\* C21: block scalar extent.  Of the lines after 'k: |' (or '>', '|-',
\* '>-') only those indented more than the line of the key become part of
\* the scalar: a line as deep as the key or less deep is not absorbed into
\* the value of k.
C21_BlockScalarExtent ==
    phase = "parsed"
    => \A root \in Roots, s \in inputText :
           (BlockText(s) /\ ReadOf(s)[2].Offset <= ReadOf(s)[1].Offset)
           => ~(/\ status = "ok"
                /\ error = NoError
                /\ Node_Type(heap, root) = "Map"
                /\ <<"k">> \in DOMAIN heap[root].map
                /\ IsPrefix(ReadOf(s)[2].Data,
                            Node_AsString(heap, heap[root].map[<<"k">>])))

\* The lines from the i-th on that are at offset o or deeper, each with the
\* separator and its extra indentation before it, and how many they are.
RECURSIVE MergedText(_, _, _, _)
MergedText(lines, i, o, sep) ==
    IF i > Len(lines) \/ lines[i].Offset < o THEN <<>>
    ELSE sep \o Spaces(lines[i].Offset - o) \o lines[i].Data
             \o MergedText(lines, i + 1, o, sep)

RECURSIVE MergedCount(_, _, _)
MergedCount(lines, i, o) ==
    IF i > Len(lines) \/ lines[i].Offset < o THEN 0
    ELSE 1 + MergedCount(lines, i + 1, o)

\* The value of the block scalar whose header is the first of the lines.
BlockValue(lines) ==
    lines[2].Data
        \o MergedText(lines, 3, lines[2].Offset,
                      IF "|" \in Chars(IndicatorOf(lines[1])) THEN <<"\n">> ELSE <<" ">>)
        \o (IF "-" \in Chars(IndicatorOf(lines[1])) THEN <<>> ELSE <<"\n">>)

\* No line after the first is an entry with the key of the first.
KeyOnce(lines) ==
    \A j \in 2..Len(lines) : ~(lines[j].Type = "Map" /\ lines[j].Data = lines[1].Data)

\* C22: block scalar merging.  The first content line p0 at offset o is
\* merged with each line that follows at an offset oi >= o: the result is
\* p0, then for each of them the separator ("\n" literal, " " folded),
\* oi - o spaces and the line, then one "\n" exactly when the indicator has
\* no '-'; the merged lines are gone from the line list, and the value is
\* what the key gets when no later entry has the same key.
C22_BlockScalarMerging ==
    phase = "parsed"
    => \A root \in Roots, s \in inputText :
           BlockText(s)
           => /\ PostOf(s).err = NoError
                  => /\ PostOf(s).lines[2].Data = BlockValue(ReadOf(s))
                     /\ \A i \in 3..(2 + MergedCount(ReadOf(s), 3, ReadOf(s)[2].Offset)) :
                            \A j \in 1..Len(PostOf(s).lines) :
                                PostOf(s).lines[j].No # ReadOf(s)[i].No
              /\ (status = "ok" /\ error = NoError /\ KeyOnce(PostOf(s).lines))
                  => Stored(root, <<"k">>, BlockValue(ReadOf(s)))

\* A folded block scalar of two lines, the second one space deeper, has been
\* parsed: the value has the separator and the extra space between the
\* lines and a newline at its end, and the entry after it is a key of its
\* own.
C22_Witness ==
    /\ phase = "parsed"
    /\ \E s \in inputText :
           /\ BlockText(s)
           /\ IndicatorOf(ReadOf(s)[1]) = <<">">>
           /\ MergedCount(ReadOf(s), 3, ReadOf(s)[2].Offset) = 1
    /\ \A root \in Roots :
           /\ Stored(root, <<"k">>, <<"x", " ", " ", "x", "\n">>)
           /\ <<"a">> \in DOMAIN heap[root].map

\* The text is the one line 'k: V', V being no block scalar indicator, and
\* V is its value.
InlineText(s) ==
    /\ ReadsWell(s)
    /\ Len(ReadOf(s)) = 1
    /\ Len(ReadOf(s)[1].Data) > 3
    /\ SubSeq(ReadOf(s)[1].Data, 1, 3) = <<"k", ":", " ">>
    /\ Substr(ReadOf(s)[1].Data, 3, npos) \notin Indicators

InlineValue(s) == Substr(ReadOf(s)[1].Data, 3, npos)

\* The first '"' after the opening one that no backslash precedes is the
\* last character of value.
ClosedAtEnd(value) ==
    /\ Len(value) >= 2
    /\ value[Len(value)] = "\""
    /\ value[Len(value) - 1] # "\\"
    /\ \A i \in 2..(Len(value) - 1) : value[i] = "\"" => value[i - 1] = "\\"

\* C23: inline map value.  For a line 'k: V': when V begins with '"', its
\* closing '"' is its last character and the scalar stored is V without the
\* two quotes, or else the Parse throws incorrect-value; when V does not
\* begin with '"', the scalar stored is V as it stands, a quoted span in its
\* middle included.
C23_InlineValue ==
    phase = "parsed"
    => \A root \in Roots, s \in inputText :
           InlineText(s)
           => IF InlineValue(s)[1] = "\""
              THEN IF ClosedAtEnd(InlineValue(s))
                   THEN Stored(root, <<"k">>, Substr(InlineValue(s), 1, Len(InlineValue(s)) - 2))
                   ELSE status = "ok" /\ error.msg = "g_ErrorValueIncorrect"
              ELSE Stored(root, <<"k">>, InlineValue(s))

\* C24: split lines.  The rest of a line '- rest' is classified like any
\* other line: when it starts with '- ' itself it becomes a sequence item in
\* the item, not a scalar and not a map key.
C24_SplitLines ==
    phase = "parsed"
    => \A root \in Roots, s \in inputText :
           (/\ ReadsWell(s)
            /\ Len(ReadOf(s)) = 1
            /\ IsSequenceStart(ReadOf(s)[1].Data)
            /\ IsSequenceStart(Substr(ReadOf(s)[1].Data, 2, npos)))
           => \/ status # "ok"
              \/ error # NoError
              \/ /\ Node_Type(heap, root) = "Sequence"
                 /\ 0 \in DOMAIN heap[root].seq
                 /\ Node_Type(heap, heap[root].seq[0]) = "Sequence"

\* The line is the start of an entry, of a map or of a sequence.
EntryLine(line) == line.Type \in {"Map", "Sequence"}

\* The first depth lines are entries, each the first in the value of the one
\* before it, the line after them is a scalar and one more line follows.
ValueThenLine(lines, depth) ==
    /\ Len(lines) >= depth + 2
    /\ \A i \in 1..depth : EntryLine(lines[i])
    /\ lines[depth + 1].Type = "Scalar"

\* What the line n that follows a value asks for, p being the innermost
\* entry still open and the entries before p its parents: deeper than p is
\* an incorrect offset; less deep goes back to the parent of p, and past the
\* outermost entry leaves lines unconsumed; as deep as p and of another kind
\* is a different entry; as deep as p and of its kind is a sibling ("").
RECURSIVE AfterValue(_, _, _)
AfterValue(lines, n, p) ==
    IF p = 0 THEN "g_ErrorUnexpectedDocumentEnd"
    ELSE IF lines[n].Offset > lines[p].Offset THEN "g_ErrorIncorrectOffset"
    ELSE IF lines[n].Offset < lines[p].Offset THEN AfterValue(lines, n, p - 1)
    ELSE IF lines[n].Type # lines[p].Type THEN "g_ErrorDiffEntryNotAllowed"
    ELSE ""

\* The line a failure of kind msg names: the first line when lines are left
\* unconsumed, else the line n that follows the value.
NamedLine(lines, n, msg) ==
    IF msg = "g_ErrorUnexpectedDocumentEnd" THEN lines[1].No ELSE lines[n].No

\* The discipline for the line that follows the value of the entry at
\* depth: the failure it asks for is the one thrown; a sibling with a scalar
\* value at the end of the text makes the Parse succeed.
Discipline(lines, depth) ==
    IF AfterValue(lines, depth + 2, depth) # ""
    THEN /\ status = "ok"
         /\ error.msg = AfterValue(lines, depth + 2, depth)
         /\ error.line = NamedLine(lines, depth + 2, AfterValue(lines, depth + 2, depth))
    ELSE (Len(lines) = depth + 3 /\ lines[depth + 3].Type = "Scalar")
         => status = "ok" /\ error = NoError

RoundTripKey(key) ==
    /\ Len(key) > 0
    /\ \A c \in Chars(key) : Code(c) >= 32 /\ Code(c) <= 125
    /\ key[1] \notin {" ", "\t"}
    /\ key[Len(key)] \notin {" ", "\t"}

\* C27: key round trip.  A map of one entry, its key such a key (the keys
\* with '\', '"', ':' or '#' among them) and its value a one-letter scalar,
\* serialized and parsed, comes back as a map of exactly that entry.
C27_KeyRoundTrip ==
    (/\ phase = "done"
     /\ inputText = {}
     /\ original.type = "Map"
     /\ \E key \in DOMAIN original.map :
            /\ DOMAIN original.map = {key}
            /\ RoundTripKey(key)
            /\ original.map[key] = [NodeImp EXCEPT !.type = "Scalar", !.data = <<"x">>])
    => SameTreeBack

\* The places where a text can be cut in two texts: after a newline that is
\* not its last character.
CutPoints(s) == {i \in 1..(Len(s) - 1) : s[i] = "\n"}

\* The text parses to a map of one entry.
OneEntry(s, root) ==
    /\ ~OutcomeOf(Parse(NewMachine, root, s), root).fails
    /\ OutcomeOf(Parse(NewMachine, root, s), root).tree.type = "Map"
    /\ Cardinality(DOMAIN OutcomeOf(Parse(NewMachine, root, s), root).tree.map) = 1

\* Both texts are one entry of a map, equally indented and of the same key.
SameKeyTwice(first, second, root) ==
    /\ OneEntry(first, root)
    /\ OneEntry(second, root)
    /\ ReadOf(first)[1].Offset = ReadOf(second)[1].Offset
    /\ DOMAIN OutcomeOf(Parse(NewMachine, root, first), root).tree.map
           = DOMAIN OutcomeOf(Parse(NewMachine, root, second), root).tree.map

\* C28: duplicate keys while parsing.  A text in which a key comes twice
\* in the same map parses to what its last occurrence alone parses to: one
\* entry, and nothing of the value of the earlier occurrence in it.
C28_DuplicateKeys ==
    phase = "parsed"
    => \A root \in Roots, s \in inputText : \A i \in CutPoints(s) :
           SameKeyTwice(SubSeq(s, 1, i), SubSeq(s, i + 1, Len(s)), root)
           => Outcome(Machine, error, root)
                  = OutcomeOf(Parse(NewMachine, root, SubSeq(s, i + 1, Len(s))), root)

\* The text with "\r\n" for every "\n".
RECURSIVE WithReturns(_)
WithReturns(s) ==
    IF Len(s) = 0 THEN <<>>
    ELSE (IF Head(s) = "\n" THEN <<"\r", "\n">> ELSE <<Head(s)>>) \o WithReturns(Tail(s))

\* What the caller of a Parse sees: whether it came back, the kind of the
\* failure, and the tree.
Seen(m, err, root) ==
    [status |-> m.status, msg |-> err.msg,
     tree |-> IF m.status = "ok" THEN TreeOf(m.heap, root) ELSE NodeImp]

\* C29: line-ending independence.  A text and the text with "\r\n" for
\* every "\n" parse to the same outcome, the same tree or the same kind of
\* failure, marker lines '---' and '...' included.
C29_LineEndings ==
    phase = "parsed"
    => \A root \in Roots, s \in inputText :
           Seen(Parse(NewMachine, root, WithReturns(s)).m,
                Parse(NewMachine, root, WithReturns(s)).err, root)
               = Seen(Machine, error, root)

\* C30: Parse depends only on its input.  Whatever the root held before
\* (nothing, a scalar, a sequence or a map with children), the Parse of a
\* text ends as the Parse of the same text into a new root ends, with the
\* same exception and an equal tree; the Parse of the empty text leaves the
\* root None.
C30_InputOnly ==
    phase = "parsed"
    => \A root \in Roots, s \in inputText :
           /\ Seen(Machine, error, root)
                  = Seen(Parse(NewMachine, root, s).m, Parse(NewMachine, root, s).err, root)
           /\ error = Parse(NewMachine, root, s).err
           /\ s = <<>> => (status = "ok" /\ error = NoError /\ heap[root] = NodeImp)

\* The empty text has been parsed into a root that had children: they are
\* deleted and the root is None.
C30_Witness ==
    /\ phase = "parsed"
    /\ status = "ok"
    /\ inputText = {<<>>}
    /\ Cardinality(DOMAIN heap) > Cardinality(live)
    /\ \A root \in Roots : heap[root] = NodeImp

(***************************************************************************)
(* Properties of FindNotCited.                                             *)
(***************************************************************************)
\* Position p of the line lies inside a span from one quote character to
\* the next, Q being the positions of the quote characters that count.
InsideSpan(Q, p) ==
    /\ Cardinality({q \in Q : q < p}) % 2 = 1
    /\ \E q \in Q : q > p

\* The positions of the '"' that no backslash precedes.
UnescapedQuotes(input) ==
    {p \in 0..(Len(input) - 1) :
        input[p + 1] = "\"" /\ (p = 0 \/ input[p] # "\\")}

\* The positions of the single quotes.
SingleQuotes(input) == {p \in 0..(Len(input) - 1) : input[p + 1] = "'"}

\* The positions of the token outside every double-quoted span.
NotCited(input, token) ==
    {p \in 0..(Len(input) - 1) :
        input[p + 1] = token /\ ~InsideSpan(UnescapedQuotes(input), p)}

\* C18: quote-aware scanning.  FindNotCited returns the first position of
\* the token that is outside every double-quoted span, and npos when there
\* is none; it never returns a position inside such a span.
C18_QuoteAware ==
    scan.called
    => scan.pos = (IF NotCited(scan.input, scan.token) = {} THEN npos
                   ELSE Min(NotCited(scan.input, scan.token)))

\* C19: single-quoted spans.  The position FindNotCited returns for '#' or
\* ':' is never between two single quotes.
C19_SingleQuoted ==
    (scan.called /\ scan.pos # npos)
    => ~InsideSpan(SingleQuotes(scan.input), scan.pos)

(***************************************************************************)
(* Properties of LineFolding.                                              *)
(***************************************************************************)
\* The pieces with one space between each two of them.
RECURSIVE JoinPieces(_)
JoinPieces(pieces) ==
    IF Len(pieces) = 0 THEN <<>>
    ELSE IF Len(pieces) = 1 THEN pieces[1]
    ELSE pieces[1] \o <<" ">> \o JoinPieces(Tail(pieces))

\* C26: line folding.  The folding of a line with a maximum length L > 0
\* ends and returns at least one piece, more than one only if the line has
\* a space at index L or later, and the pieces joined with single spaces
\* are the line.
C26_LineFolding ==
    scan.called
    => /\ Len(scan.folded) >= 1
       /\ Len(scan.folded) >= 2
              => \E i \in scan.maxLength..(Len(scan.input) - 1) : scan.input[i + 1] = " "
       /\ JoinPieces(scan.folded) = scan.input

(***************************************************************************)
(* Properties of the node operations.                                      *)
(***************************************************************************)
\* What a caller observes through a reference: kind, size and value.
Observed(h, n) == <<Node_Type(h, n), Node_Size(h, n), Node_AsString(h, n)>>

\* C11: independent trees.  When the trees of A and B share no node, a call
\* by B, be it on a node of B's tree or on a reference one of B's calls
\* returned, leaves the kind, size and value as they were at every node of
\* A's tree and at every reference a call by A has returned.
C11_Independence ==
    [][(/\ TreeNodes(heap, TreeRoot("A")) \cap TreeNodes(heap, TreeRoot("B")) = {}
        /\ Performs("B"))
       => \A n \in Refs("A") :
              /\ n \in live'
              /\ Observed(heap', n) = Observed(heap, n)]_vars

\* The keys of m_Sequence are 0 .. size - 1.
Dense(h, n) == DOMAIN h[n].seq = 0..(Cardinality(DOMAIN h[n].seq) - 1)

\* The smaller of two numbers.
MinOf(a, b) == IF a < b THEN a ELSE b

\* C4: sequence density.  In every sequence, child-at(i) returns a child and
\* not the sentinel for every i with 0 <= i < size.
C4_SequenceDensity ==
    \A n \in live :
        (status = "ok" /\ Node_Type(heap, n) = "Sequence") =>
            \A i \in 0..(Node_Size(heap, n) - 1) :
                Node_ChildAt(Machine, n, i).ret # g_NoneNode

\* C5: insert-at(i) on a dense sequence of size n, when it returns, has made
\* the size n + 1, has left the sequence dense, and has returned a new empty
\* child, the one child-at(min(i, n)) returns afterwards.
C5_InsertAt ==
    [][\A self \in live, index \in Indices :
        (/\ Node_Type(heap, self) = "Sequence"
         /\ Dense(heap, self)
         /\ Insert(self, index)
         /\ status' = "ok")
        => /\ Node_Size(heap', self) = Node_Size(heap, self) + 1
           /\ Dense(heap', self)
           /\ Node_Insert(Machine, self, index).ret \in live' \ live
           /\ heap'[Node_Insert(Machine, self, index).ret] = NodeImp
           /\ Node_ChildAt(Machine', self, MinOf(index, Node_Size(heap, self))).ret
                  = Node_Insert(Machine, self, index).ret]_vars

\* C6: every node operation is total.  No call on a node that is not deleted
\* runs for ever, exhausts a resource or has undefined behaviour.
C6_Total == status = "ok"

\* C7: map insertion order.  A child-at-key with a key the map does not have
\* puts the key last in the iteration from Begin() to End(), and leaves the
\* order of the keys before it as it was.
C7_InsertionOrder ==
    [][\A self \in live, key \in Keys :
        (/\ Node_Type(heap, self) = "Map"
         /\ key \notin DOMAIN heap[self].map
         /\ ChildAtKey(self, key)
         /\ status' = "ok")
        => IterateKeys(heap', self) = Append(IterateKeys(heap, self), key)]_vars

\* C8: map key uniqueness.  Of two child-at-key(k) calls in a row on a map,
\* the first makes the size one more when k was absent and leaves it when k
\* was present, the second leaves everything as it is, and both return the
\* same child.
C8_KeyUniqueness ==
    [][\A self \in live, key \in Keys :
        (/\ Node_Type(heap, self) = "Map"
         /\ ChildAtKey(self, key))
        => /\ status' = "ok"
           /\ Node_Type(heap', self) = "Map"
           /\ Node_Size(heap', self) =
                  Node_Size(heap, self) + (IF key \in DOMAIN heap[self].map THEN 0 ELSE 1)
           /\ Node_ChildAtKey(Machine', self, key).m = Machine'
           /\ Node_ChildAtKey(Machine', self, key).ret
                  = Node_ChildAtKey(Machine, self, key).ret
           /\ Node_ChildAtKey(Machine', self, key).ret \in live'
           /\ Node_ChildAtKey(Machine', self, key).ret # g_NoneNode]_vars

\* A map that has the key "a" next to another, where child-at-key("a") finds
\* the child that an earlier child-at-key("a") made.
C8_Witness ==
    \E n \in live :
        /\ Node_Type(heap, n) = "Map"
        /\ Node_Size(heap, n) = 2
        /\ <<"a">> \in DOMAIN heap[n].map
        /\ Node_ChildAtKey(Machine, n, <<"a">>).m = Machine
        /\ Node_ChildAtKey(Machine, n, <<"a">>).ret = heap[n].map[<<"a">>]

\* The node has kind K after the call; contents it had as a K are still there.
Coerced(self, K) ==
    /\ Node_Type(heap', self) = K
    /\ Node_Type(heap, self) = K =>
          /\ \A i \in DOMAIN heap[self].seq :
                i \in DOMAIN heap'[self].seq /\ heap[self].seq[i] \in live'
          /\ \A k \in DOMAIN heap[self].map :
                k \in DOMAIN heap'[self].map /\ heap'[self].map[k] = heap[self].map[k]
    /\ Node_Type(heap, self) # K =>
          \A c \in live \ {self} :
              (\E i \in DOMAIN heap[self].seq : heap[self].seq[i] = c)
              \/ (\E k \in DOMAIN heap[self].map : heap[self].map[k] = c)
              => c \notin live'

\* C9: kind coercion.  When a call that requires kind K returns, the node it
\* was made on has kind K; a node that had kind K before keeps its contents,
\* one of another kind has lost them.
C9_KindCoercion ==
    [][\A self \in live :
        /\ ((\E index \in Indices : Insert(self, index)) /\ status' = "ok")
               => Coerced(self, "Sequence")
        /\ (PushFront(self) /\ status' = "ok") => Coerced(self, "Sequence")
        /\ (PushBack(self) /\ status' = "ok") => Coerced(self, "Sequence")
        /\ ((\E index \in Indices : ChildAt(self, index)) /\ status' = "ok")
               => Coerced(self, "Sequence")
        /\ ((\E key \in Keys : ChildAtKey(self, key)) /\ status' = "ok")
               => Coerced(self, "Map")
        /\ ((\E value \in Values : AssignString(self, value)) /\ status' = "ok")
               => Coerced(self, "Scalar")]_vars

\* C10: out-of-bounds read.  A child-at(i) on a sequence without a child at
\* i returns a node that reads as None, and the sequence is as it was.
C10_OutOfBoundsRead ==
    [][\A self \in live, index \in Indices :
        (/\ Node_Type(heap, self) = "Sequence"
         /\ index \notin DOMAIN heap[self].seq
         /\ ChildAt(self, index)
         /\ status' = "ok")
        => /\ Node_ChildAt(Machine, self, index).ret \in live'
           /\ Node_Type(heap', Node_ChildAt(Machine, self, index).ret) = "None"
           /\ Node_Size(heap', Node_ChildAt(Machine, self, index).ret) = 0
           /\ Node_AsString(heap', Node_ChildAt(Machine, self, index).ret) = g_EmptyString
           /\ self \in live'
           /\ heap'[self] = heap[self]]_vars

\* C12: assign-node deep-copies.  When self = n returns, the tree under
\* self equals the tree n had, kind, payload and children at every index and
\* key, and the tree under n is as it was.
C12_DeepCopy ==
    [][\A self \in live, from \in live :
        (AssignNode(self, from) /\ status' = "ok")
        => /\ TreeOf(heap', self) = TreeOf(heap, from)
           /\ from \in live'
           /\ TreeOf(heap', from) = TreeOf(heap, from)]_vars

====
